---- MODULE Spec2Model ----
(***************************************************************************)
(* Model of api/index.py: the greedy transcript chunker get_chunks and the *)
(* request handler api_get_video_embeddings that runs it in front of the   *)
(* sentence-embedding model.                                               *)
(*                                                                         *)
(* A text is a sequence of one-character strings, so len(), +, strip() and *)
(* truthiness are computed as Python computes them.  A segment is a record *)
(* [text, start].                                                          *)
(***************************************************************************)
EXTENDS Integers, Sequences, FiniteSets, TLC

VARIABLES
    caller,              \* "direct": get_chunks called as a library; "pipeline": the HTTP handler
    pc,                  \* position of the running request
    transcript_list,     \* the segments handed to get_chunks
    max_chunk_length,    \* get_chunks parameter
    texts,               \* get_chunks local (line 24)
    timestamps,          \* get_chunks local (line 25)
    pos,                 \* position of the zip iterator of line 36 (1-based)
    chunks,              \* get_chunks local (line 31)
    chunk_timestamps,    \* get_chunks local (line 32)
    current_chunk,       \* get_chunks local (line 33)
    current_timestamps,  \* get_chunks local (line 34)
    corpus_embeddings,   \* handler local (line 110)
    response,            \* what the handler returns to the client
    error,               \* the exception that ended the request, if any
    model                \* module-level model handle (line 71)

vars == <<caller, pc, transcript_list, max_chunk_length, texts, timestamps, pos,
          chunks, chunk_timestamps, current_chunk, current_timestamps,
          corpus_embeddings, response, error, model>>

----------------------------------------------------------------------------
(* Bounds of the explored inputs *)

MaxSegs == 3
MaxTotalLen == 6
MaxChunkLen == 6
MaxLongSegs == 3

(* Program constants *)

DefaultMaxChunkLength == 500
dimensions == 1024

----------------------------------------------------------------------------
(* Strings *)

Whitespace == {" "}
Letters == {"a"}
Chars == Letters \cup Whitespace

\* str.strip(): drop leading and trailing whitespace
RECURSIVE LStrip(_)
LStrip(s) ==
    IF s = <<>> THEN <<>>
    ELSE IF Head(s) \in Whitespace THEN LStrip(Tail(s)) ELSE s

RECURSIVE RStrip(_)
RStrip(s) ==
    IF s = <<>> THEN <<>>
    ELSE IF s[Len(s)] \in Whitespace THEN RStrip(SubSeq(s, 1, Len(s) - 1)) ELSE s

Strip(s) == RStrip(LStrip(s))

\* n copies of the character c
Rep(c, n) == [k \in 1..n |-> c]

----------------------------------------------------------------------------
(* get_chunks: the loop body as a function of the local frame *)

\* line 37 without the separator's character
FitsNoSeparator(cur, text, maxlen) == Len(cur) + Len(text) <= maxlen

\* line 37 without the segment's length
FitsIgnoringText(cur, text, maxlen) == Len(cur) + 1 <= maxlen

\* line 37
Fits(cur, text, maxlen) == Len(cur) + Len(text) + 1 <= maxlen

\* lines 38-39 without the separating space
FoldStepNoSeparator(f, text, timestamp) ==
    [f EXCEPT !.current_chunk = @ \o text,
              !.current_timestamps = Append(@, timestamp)]

\* lines 38-39
FoldStep(f, text, timestamp) ==
    [f EXCEPT !.current_chunk = @ \o <<" ">> \o text,
              !.current_timestamps = Append(@, timestamp)]

\* lines 41-44 without line 42
FlushStepNoTimestamps(f, text, timestamp) ==
    [chunks             |-> Append(f.chunks, Strip(f.current_chunk)),
     chunk_timestamps   |-> f.chunk_timestamps,
     current_chunk      |-> text,
     current_timestamps |-> <<timestamp>>]

\* lines 41-44
FlushStep(f, text, timestamp) ==
    [chunks             |-> Append(f.chunks, Strip(f.current_chunk)),
     chunk_timestamps   |-> Append(f.chunk_timestamps, f.current_timestamps),
     current_chunk      |-> text,
     current_timestamps |-> <<timestamp>>]

\* lines 47-49
AppendLastStep(f) ==
    IF f.current_chunk # <<>>
    THEN [f EXCEPT !.chunks = Append(@, Strip(f.current_chunk)),
                   !.chunk_timestamps = Append(@, f.current_timestamps)]
    ELSE f

\* lines 31-34
EmptyFrame ==
    [chunks |-> <<>>, chunk_timestamps |-> <<>>,
     current_chunk |-> <<>>, current_timestamps |-> <<>>]

\* lines 36-44, from position i on
RECURSIVE RunLoop(_, _, _, _, _)
RunLoop(f, txts, tss, i, maxlen) ==
    IF i > Len(txts) THEN f
    ELSE RunLoop(IF Fits(f.current_chunk, txts[i], maxlen)
                 THEN FoldStep(f, txts[i], tss[i])
                 ELSE FlushStep(f, txts[i], tss[i]),
                 txts, tss, i + 1, maxlen)

\* lines 12-51: the pair (chunks, chunk_timestamps) that get_chunks returns
GetChunks(segs, maxlen) ==
    LET f == AppendLastStep(RunLoop(EmptyFrame,
                                    [k \in 1..Len(segs) |-> segs[k].text],
                                    [k \in 1..Len(segs) |-> segs[k].start],
                                    1, maxlen))
    IN  [chunks |-> f.chunks, chunk_timestamps |-> f.chunk_timestamps]

\* the local frame of the running call
Frame ==
    [chunks |-> chunks, chunk_timestamps |-> chunk_timestamps,
     current_chunk |-> current_chunk, current_timestamps |-> current_timestamps]

SetFrame(f) ==
    /\ chunks' = f.chunks
    /\ chunk_timestamps' = f.chunk_timestamps
    /\ current_chunk' = f.current_chunk
    /\ current_timestamps' = f.current_timestamps

----------------------------------------------------------------------------
(* Embedding and response *)

\* line 66: model.encode returns one row of `dimensions` floats per input text
generate_embeddings(txts, m) ==
    [k \in 1..Len(txts) |-> [of |-> txts[k], dim |-> dimensions, by |-> m]]

NonEmpty(group) == group # <<>>

\* line 116 with empty groups skipped instead of indexed
StartTimestampsSkipEmpty(groups) ==
    LET full == SelectSeq(groups, NonEmpty)
    IN  [ok |-> TRUE, value |-> [k \in 1..Len(full) |-> full[k][1]]]

\* line 116: indexing an empty group raises IndexError
StartTimestamps(groups) ==
    IF \E k \in 1..Len(groups) : groups[k] = <<>>
    THEN [ok |-> FALSE, value |-> <<>>]
    ELSE [ok |-> TRUE, value |-> [k \in 1..Len(groups) |-> groups[k][1]]]

NoResponse == [status |-> "none"]

\* line 71: the handle loaded at import time
LoadedModel == "mixedbread-ai/mxbai-embed-large-v1"

----------------------------------------------------------------------------
(* Inputs *)

TextsUpTo(n) == UNION {[1..k -> Chars] : k \in 0..n}

\* segment k starts at second k - 1
SegsOf(txts) == [k \in 1..Len(txts) |-> [text |-> txts[k], start |-> k - 1]]

\* the lists of exactly n texts holding at most `budget` characters in all
RECURSIVE TextLists(_, _)
TextLists(n, budget) ==
    IF n = 0 THEN {<<>>}
    ELSE UNION {{<<t>> \o rest : rest \in TextLists(n - 1, budget - Len(t))} :
                t \in TextsUpTo(budget)}

SegLists == {SegsOf(t) : t \in UNION {TextLists(n, MaxTotalLen) : n \in 0..MaxSegs}}

Hello == <<"H", "e", "l", "l", "o">>
World == <<"w", "o", "r", "l", "d">>
ThisIsATest == <<"t", "h", "i", "s", " ", "i", "s", " ", "a", " ", "t", "e", "s", "t">>
ExampleSegs == SegsOf(<<Hello, World, ThisIsATest>>)
ExampleMaxChunkLength == Len(Hello) + 1 + Len(World)

\* transcripts whose segment lengths sit around the handler's chunk length
LongLens == {0, 1, DefaultMaxChunkLength \div 2, DefaultMaxChunkLength - 1,
             DefaultMaxChunkLength, DefaultMaxChunkLength + 1}
LongTexts == {Rep("a", n) : n \in LongLens}
Transcripts == {SegsOf(t) : t \in UNION {[1..n -> LongTexts] : n \in 0..MaxLongSegs}}

----------------------------------------------------------------------------
(* State machine *)

Init ==
    /\ caller \in {"direct", "pipeline"}
    /\ \/ /\ caller = "direct"
          /\ pc = "call_get_chunks"
          /\ \/ /\ transcript_list \in SegLists
                /\ max_chunk_length \in 1..MaxChunkLen
             \/ /\ transcript_list = ExampleSegs
                /\ max_chunk_length = ExampleMaxChunkLength
       \/ /\ caller = "pipeline"
          /\ pc = "request"
          /\ transcript_list = <<>>
          /\ max_chunk_length = DefaultMaxChunkLength
    /\ texts = <<>>
    /\ timestamps = <<>>
    /\ pos = 1
    /\ chunks = <<>>
    /\ chunk_timestamps = <<>>
    /\ current_chunk = <<>>
    /\ current_timestamps = <<>>
    /\ corpus_embeddings = <<>>
    /\ response = NoResponse
    /\ error = "none"
    /\ model = LoadedModel

\* line 106: the transcript provider answers
GetTranscript ==
    /\ pc = "request"
    /\ \E t \in Transcripts : transcript_list' = t
    /\ pc' = "call_get_chunks"
    /\ UNCHANGED <<caller, max_chunk_length, texts, timestamps, pos, chunks,
                   chunk_timestamps, current_chunk, current_timestamps,
                   corpus_embeddings, response, error, model>>

\* line 106: the transcript provider raises
GetTranscriptFails ==
    /\ pc = "request"
    /\ pc' = "failed"
    /\ error' = "TranscriptUnavailable"
    /\ UNCHANGED <<caller, transcript_list, max_chunk_length, texts, timestamps, pos,
                   chunks, chunk_timestamps, current_chunk, current_timestamps,
                   corpus_embeddings, response, model>>

\* lines 24-34
EnterGetChunks ==
    /\ pc = "call_get_chunks"
    /\ texts' = [k \in 1..Len(transcript_list) |-> transcript_list[k].text]
    /\ timestamps' = [k \in 1..Len(transcript_list) |-> transcript_list[k].start]
    /\ SetFrame(EmptyFrame)
    /\ pos' = 1
    /\ pc' = "loop"
    /\ UNCHANGED <<caller, transcript_list, max_chunk_length,
                   corpus_embeddings, response, error, model>>

\* lines 36-39
LoopFold ==
    /\ pc = "loop"
    /\ pos <= Len(texts)
    /\ Fits(current_chunk, texts[pos], max_chunk_length)
    /\ SetFrame(FoldStep(Frame, texts[pos], timestamps[pos]))
    /\ pos' = pos + 1
    /\ UNCHANGED <<caller, pc, transcript_list, max_chunk_length, texts, timestamps,
                   corpus_embeddings, response, error, model>>

\* lines 36-37, 40-44
LoopFlush ==
    /\ pc = "loop"
    /\ pos <= Len(texts)
    /\ ~Fits(current_chunk, texts[pos], max_chunk_length)
    /\ SetFrame(FlushStep(Frame, texts[pos], timestamps[pos]))
    /\ pos' = pos + 1
    /\ UNCHANGED <<caller, pc, transcript_list, max_chunk_length, texts, timestamps,
                   corpus_embeddings, response, error, model>>

\* lines 46-51
AppendLastAndReturn ==
    /\ pc = "loop"
    /\ pos > Len(texts)
    /\ SetFrame(AppendLastStep(Frame))
    /\ pc' = "returned"
    /\ UNCHANGED <<caller, transcript_list, max_chunk_length, texts, timestamps, pos,
                   corpus_embeddings, response, error, model>>

\* lines 110-112
GenerateEmbeddings ==
    /\ pc = "returned"
    /\ caller = "pipeline"
    /\ corpus_embeddings' = generate_embeddings(chunks, model)
    /\ pc' = "embedded"
    /\ UNCHANGED <<caller, transcript_list, max_chunk_length, texts, timestamps, pos,
                   chunks, chunk_timestamps, current_chunk, current_timestamps,
                   response, error, model>>

\* line 110: the model call raises
GenerateEmbeddingsFails ==
    /\ pc = "returned"
    /\ caller = "pipeline"
    /\ pc' = "failed"
    /\ error' = "ModelUnavailable"
    /\ UNCHANGED <<caller, transcript_list, max_chunk_length, texts, timestamps, pos,
                   chunks, chunk_timestamps, current_chunk, current_timestamps,
                   corpus_embeddings, response, model>>

\* lines 113-117
BuildResponse ==
    /\ pc = "embedded"
    /\ StartTimestamps(chunk_timestamps).ok
    /\ response' = [status |-> "ok",
                    chunks |-> chunks,
                    embeddings |-> corpus_embeddings,
                    start_timestamps |-> StartTimestamps(chunk_timestamps).value]
    /\ pc' = "done"
    /\ UNCHANGED <<caller, transcript_list, max_chunk_length, texts, timestamps, pos,
                   chunks, chunk_timestamps, current_chunk, current_timestamps,
                   corpus_embeddings, error, model>>

\* line 116 raises while the response is being built
BuildResponseFails ==
    /\ pc = "embedded"
    /\ ~StartTimestamps(chunk_timestamps).ok
    /\ pc' = "failed"
    /\ error' = "IndexError"
    /\ UNCHANGED <<caller, transcript_list, max_chunk_length, texts, timestamps, pos,
                   chunks, chunk_timestamps, current_chunk, current_timestamps,
                   corpus_embeddings, response, model>>

Next ==
    \/ GetTranscript
    \/ GetTranscriptFails
    \/ EnterGetChunks
    \/ LoopFold
    \/ LoopFlush
    \/ AppendLastAndReturn
    \/ GenerateEmbeddings
    \/ GenerateEmbeddingsFails
    \/ BuildResponse
    \/ BuildResponseFails

Spec == Init /\ [][Next]_vars

----------------------------------------------------------------------------
(* Vocabulary of the properties *)

\* the texts of a list joined by single spaces
RECURSIVE Join(_)
Join(list) ==
    IF list = <<>> THEN <<>>
    ELSE IF Len(list) = 1 THEN list[1]
    ELSE list[1] \o <<" ">> \o Join(Tail(list))

\* the groups of a list concatenated in order
RECURSIVE Flatten(_)
Flatten(groups) ==
    IF groups = <<>> THEN <<>> ELSE Head(groups) \o Flatten(Tail(groups))

\* whitespace normalisation: runs of whitespace become one space, ends trimmed
IsKept(pair) == ~(pair[1] \in Whitespace /\ pair[2])

Collapse(s) ==
    LET marked == [k \in 1..Len(s) |-> <<s[k], k > 1 /\ s[k - 1] \in Whitespace>>]
        kept   == SelectSeq(marked, IsKept)
    IN  [k \in 1..Len(kept) |-> kept[k][1]]

Normalize(s) == Strip(Collapse(s))

\* segment k starts at second k - 1, so a start time names its segment
SegmentAt(timestamp) == timestamp + 1

\* the texts of the segments whose start times make up a group
TextsOfGroup(group) == [k \in 1..Len(group) |-> texts[SegmentAt(group[k])]]

FirstText(group) == texts[SegmentAt(group[1])]

AllChunksFit == \A k \in 1..Len(chunks) : Len(chunks[k]) <= max_chunk_length

\* get_chunks has returned to its caller
Returned == pc = "returned"

----------------------------------------------------------------------------
(* Properties *)

\* C1: a segment is folded into a chunk that already holds a segment whenever
\* the chunk's text so far (its segments joined by single spaces, no leading
\* separator) plus one separator plus the segment's text is within
\* max_chunk_length; so at every boundary between two output chunks the next
\* segment would not have fit, and the "Hello"/"world"/"this is a test" example
\* with max_chunk_length 11 gives ["Hello world", "this is a test"] at [0, 2].
C1_FoldWheneverFits ==
    Returned =>
        /\ \A j \in 1..(Len(chunks) - 1) :
              (chunk_timestamps[j] # <<>> /\ chunk_timestamps[j + 1] # <<>>) =>
                  Len(Join(TextsOfGroup(chunk_timestamps[j])))
                    + Len(FirstText(chunk_timestamps[j + 1])) + 1 > max_chunk_length
        /\ (transcript_list = ExampleSegs /\ max_chunk_length = ExampleMaxChunkLength) =>
              /\ chunks = <<Hello \o <<" ">> \o World, ThisIsATest>>
              /\ chunk_timestamps = <<<<0, 1>>, <<2>>>>

\* C2: no chunk is emitted from an empty accumulator: every emitted chunk
\* derives from at least one segment, every timestamp group is non-empty.
C2_NoChunkFromEmptyAccumulator ==
    /\ Len(chunks) = Len(chunk_timestamps)
    /\ \A k \in 1..Len(chunk_timestamps) : chunk_timestamps[k] # <<>>

\* C3: a pipeline run whose transcript retrieval and model call both succeed
\* returns a response with one start timestamp per chunk, start_timestamps[i]
\* being the start of the first segment folded into chunks[i]; group[0] is
\* defined for every emitted chunk.
C3_PipelineStartTimestamps ==
    caller = "pipeline" =>
        /\ pc = "embedded" => StartTimestamps(chunk_timestamps).ok
        /\ pc = "failed" => error \in {"TranscriptUnavailable", "ModelUnavailable"}
        /\ pc = "done" =>
              /\ Len(response.start_timestamps) = Len(response.chunks)
              /\ \A i \in 1..Len(response.chunks) :
                    /\ chunk_timestamps[i] # <<>>
                    /\ response.start_timestamps[i] = Head(chunk_timestamps[i])
                    /\ response.chunks[i] = Strip(Join(TextsOfGroup(chunk_timestamps[i])))

\* C4: every chunk is at most max_chunk_length long unless it derives from
\* exactly one segment whose own text is longer than max_chunk_length.
C4_LengthBound ==
    \A k \in 1..Len(chunks) :
        \/ Len(chunks[k]) <= max_chunk_length
        \/ /\ Len(chunk_timestamps[k]) = 1
           /\ Len(FirstText(chunk_timestamps[k])) > max_chunk_length

C4_Witness ==
    /\ pc = "returned"
    /\ \E k \in 1..Len(chunks) : Len(chunks[k]) > max_chunk_length
    /\ \E k \in 1..Len(chunks) :
          Len(chunk_timestamps[k]) > 1 /\ Len(chunks[k]) = max_chunk_length

\* C5: a segment longer than max_chunk_length is neither split nor merged:
\* wherever it stands, exactly one chunk holds it, that chunk's text is the
\* segment's trimmed text and its timestamp group is [the segment's start].
C5_OversizedSegmentAlone ==
    Returned =>
        \A i \in 1..Len(texts) :
            Len(texts[i]) > max_chunk_length =>
                \E j \in 1..Len(chunks) :
                    /\ chunks[j] = Strip(texts[i])
                    /\ chunk_timestamps[j] = <<timestamps[i]>>
                    /\ \A j2 \in 1..Len(chunks) :
                          j2 # j => \A k \in 1..Len(chunk_timestamps[j2]) :
                                        chunk_timestamps[j2][k] # timestamps[i]

C5_Witness ==
    /\ pc = "returned"
    /\ Len(texts) = 3
    /\ Len(texts[2]) > max_chunk_length
    /\ Len(texts[1]) + 1 <= max_chunk_length
    /\ texts[3] # <<>>

\* C6: idempotence: if every output chunk is at most max_chunk_length long,
\* chunking the output chunks again, each as one segment carrying its
\* representative timestamp, returns the same chunk texts and the same
\* representative timestamps.
C6_Idempotent ==
    (pc = "returned" /\ AllChunksFit) =>
        /\ StartTimestamps(chunk_timestamps).ok
        /\ LET starts == StartTimestamps(chunk_timestamps).value
               again  == GetChunks([k \in 1..Len(chunks) |->
                                       [text |-> chunks[k], start |-> starts[k]]],
                                   max_chunk_length)
           IN  /\ again.chunks = chunks
               /\ StartTimestamps(again.chunk_timestamps).ok
               /\ StartTimestamps(again.chunk_timestamps).value = starts

\* C7: round trip: the output chunk texts joined by single spaces are, after
\* whitespace normalisation, the segment texts joined by single spaces; no
\* segment text is lost, duplicated or reordered.
C7_RoundTrip ==
    Returned => Normalize(Join(chunks)) = Normalize(Join(texts))

C7_Witness ==
    /\ pc = "returned"
    /\ Len(chunks) >= 2
    /\ \E k \in 1..Len(chunks) : Len(chunk_timestamps[k]) > 1
    /\ \E i \in 1..Len(texts) : texts[i] # <<>> /\ Strip(texts[i]) # texts[i]
    /\ \E i, j \in 1..Len(texts) : Len(Strip(texts[i])) > Len(Strip(texts[j])) /\ Strip(texts[j]) # <<>>

\* C8: in every state of get_chunks chunks and chunk_timestamps have the
\* same length and entry i of each describes the same chunk; after a full
\* pipeline run chunks, embeddings and start_timestamps have that length too,
\* in the same order.
C8_ParallelLists ==
    /\ Len(chunks) = Len(chunk_timestamps)
    /\ pc \in {"loop", "returned", "embedded", "done"} =>
          \A i \in 1..Len(chunks) :
              chunks[i] = Strip(Join(TextsOfGroup(chunk_timestamps[i])))
    /\ pc = "done" =>
          /\ response.status = "ok"
          /\ response.chunks = chunks
          /\ Len(response.embeddings) = Len(chunks)
          /\ Len(response.start_timestamps) = Len(chunks)
          /\ \A i \in 1..Len(chunks) :
                /\ response.embeddings[i].of = chunks[i]
                /\ response.embeddings[i].dim = dimensions
                /\ response.start_timestamps[i] = Head(chunk_timestamps[i])

C8_Witness ==
    /\ pc = "done"
    /\ Len(response.chunks) >= 2
    /\ \E i \in 1..Len(chunks) : Len(chunk_timestamps[i]) > 1

\* C9: a request ends in one complete response or in one error with no
\* partial result, and a failed request leaves the model handle as it was.
C9_AtomicOutcome ==
    /\ response.status \in {"none", "ok"}
    /\ response.status = "ok" =>
          /\ pc = "done"
          /\ error = "none"
          /\ response.chunks = chunks
          /\ Len(response.embeddings) = Len(chunks)
          /\ Len(response.start_timestamps) = Len(chunks)
    /\ pc = "done" => response.status = "ok"
    /\ pc = "failed" =>
          /\ response = NoResponse
          /\ error \in {"TranscriptUnavailable", "ModelUnavailable", "IndexError"}
    /\ pc # "failed" => error = "none"
    /\ model = LoadedModel

C9_Witness ==
    /\ pc = "failed"
    /\ error = "IndexError"
    /\ chunks # <<>>
    /\ corpus_embeddings # <<>>

\* C10: timestamp conservation: the returned timestamp groups concatenated in
\* order are exactly the segments' start times in input order.
C10_TimestampConservation ==
    Returned => Flatten(chunk_timestamps) = timestamps

====
